---- MODULE Spec2Model ----
(***************************************************************************)
(* Habit-tracking backend: the progress and habits routes over the hosted  *)
(* store, and the streak calculator they call.                             *)
(*                                                                         *)
(* Time is counted in hours since the epoch.  A stored date string         *)
(* "YYYY-MM-DD" is the number of its day; new Date(string) is that day's   *)
(* UTC midnight; setHours(0,0,0,0) moves an instant to the midnight of the *)
(* server's LOCAL day that holds it; toISOString().split('T')[0] is the    *)
(* UTC day of an instant.  The server's zone is a fixed offset from UTC    *)
(* (daylight-saving shifts are not modelled).                              *)
(*                                                                         *)
(* The operations of the store succeed, except in SpecCalcErr, where the   *)
(* read of calculateStreaks can answer with an error or be rejected.       *)
(* The share and users routes and registration are modelled as well.       *)
(***************************************************************************)
EXTENDS Integers, Sequences, FiniteSets, TLC

VARIABLES
  tz,        \* the server's offset from UTC, in hours (process environment)
  now,       \* the wall clock: hours since the epoch (UTC)
  habits,    \* table habits: a set of rows
  progress,  \* table progress: a set of rows
  nextId,    \* the next primary key the store hands to an inserted progress row
  reqs,      \* the requests in flight: slot -> the handler's position and locals
  ret,       \* the value of the last direct call of calculateStreaks
  shared,    \* table shared_progress: a set of rows
  noted,     \* history: what the store held when the first of two toggles arrived
  profiles,  \* table profiles: a set of rows
  accounts   \* the users of the store's auth service: a set of user ids

vars == <<tz, now, habits, progress, nextId, reqs, ret, shared, noted,
          profiles, accounts>>

-----------------------------------------------------------------------------
(* Bounds of the model *)

\* calculateStreaks alone is explored on completion dates 1..CalcDays
CalcDays == 8

\* the requests of the routes name the days 1..MaxDay
MaxDay == 2

\* the store holds at most this many progress rows
MaxRecords == 2

\* the orders of creation are explored on completion dates 1..OrderDays
OrderDays == 4

\* calculateStreaks is called this many times in a row on one store
MaxCalls == 2

\* the table shared_progress holds at most this many rows
MaxShares == 1

\* GET /api/progress/stats is asked for 1..MaxStatsDays days
MaxStatsDays == 2

\* offsets from UTC a server can run at: west of, at and east of Greenwich
ServerOffsets == {-5, 0, 5}

Users == {"u1"}
HabitIds == {"h1"}
Slots == {1, 2}
TwoHabits == {"h1", "h2"}

-----------------------------------------------------------------------------
(* Dates *)

HoursPerDay == 24

\* new Date("YYYY-MM-DD"): the UTC midnight of that day
NewDate(dateString) == dateString * HoursPerDay

\* d.setHours(0, 0, 0, 0): the midnight of the local day holding instant t
SetHoursZero(t) == ((t + tz) \div HoursPerDay) * HoursPerDay - tz

\* d.toISOString().split('T')[0]: the UTC day of instant t
ToISODate(t) == t \div HoursPerDay

\* Math.floor((a - b) / (1000 * 60 * 60 * 24))
DaysBetween(a, b) == (a - b) \div HoursPerDay

\* const today = new Date(); today.setHours(0, 0, 0, 0)
today == SetHoursZero(now)

-----------------------------------------------------------------------------
(* The store *)

\* CompletedRows without .eq('habit_id', habitId): the user's completed rows of
\* every habit
CompletedRowsAnyHabit(habitId, userId) ==
  {p \in progress : p.user_id = userId /\ p.completed}

\* .from('progress').select(...).eq('habit_id').eq('user_id').eq('completed', true)
CompletedRows(habitId, userId) ==
  {p \in progress : p.habit_id = habitId /\ p.user_id = userId /\ p.completed}

MaxDate(rows) == CHOOSE d \in {p.date : p \in rows} : \A p \in rows : p.date <= d

\* the read without .order(...): the rows' dates as the table holds them, in
\* the order of their primary keys
RECURSIVE OrderAsStored(_)
OrderAsStored(rows) ==
  IF rows = {} THEN <<>>
  ELSE LET first == CHOOSE p \in rows : \A o \in rows : p.id <= o.id
       IN  <<first.date>> \o OrderAsStored(rows \ {first})

\* .order('date', { ascending: false }): the rows' dates, most recent first
\* (rows of one date are neighbours; they are equal in every column read)
RECURSIVE OrderDesc(_)
OrderDesc(rows) ==
  IF rows = {} THEN <<>>
  ELSE LET top == CHOOSE p \in rows : p.date = MaxDate(rows)
       IN  <<top.date>> \o OrderDesc(rows \ {top})

-----------------------------------------------------------------------------
(* calculateStreaks *)

\* CurrentLoop with "continue" where the code has "break": a gap does not end
\* the count
RECURSIVE CurrentLoopNoBreak(_, _, _)
CurrentLoopNoBreak(dates, i, cur) ==
  IF i > Len(dates) THEN cur
  ELSE LET progressDate == SetHoursZero(NewDate(dates[i]))
           daysDiff == DaysBetween(today, progressDate)
       IN  IF i = 1 /\ (daysDiff = 0 \/ daysDiff = 1)
           THEN CurrentLoopNoBreak(dates, i + 1, 1)
           ELSE IF i > 1
           THEN LET prevDate == SetHoursZero(NewDate(dates[i - 1]))
                    prevDaysDiff == DaysBetween(prevDate, progressDate)
                IN  IF prevDaysDiff = 1
                    THEN CurrentLoopNoBreak(dates, i + 1, cur + 1)
                    ELSE CurrentLoopNoBreak(dates, i + 1, cur)
           ELSE CurrentLoopNoBreak(dates, i + 1, cur)

\* the loop "Calculate current streak", from index i with currentStreak = cur
\* (sequences count from 1: i = 1 is the code's i === 0)
RECURSIVE CurrentLoop(_, _, _)
CurrentLoop(dates, i, cur) ==
  IF i > Len(dates) THEN cur
  ELSE LET progressDate == SetHoursZero(NewDate(dates[i]))
           daysDiff == DaysBetween(today, progressDate)
       IN  IF i = 1 /\ (daysDiff = 0 \/ daysDiff = 1)
           THEN CurrentLoop(dates, i + 1, 1)
           ELSE IF i > 1
           THEN LET prevDate == SetHoursZero(NewDate(dates[i - 1]))
                    prevDaysDiff == DaysBetween(prevDate, progressDate)
                IN  IF prevDaysDiff = 1
                    THEN CurrentLoop(dates, i + 1, cur + 1)
                    ELSE cur                                     \* break
           ELSE CurrentLoop(dates, i + 1, cur)   \* i === 0 outside the grace days

Max(a, b) == IF a >= b THEN a ELSE b

\* LongestLoop without "tempStreak = 1" in the else branch
RECURSIVE LongestLoopNoReset(_, _, _, _)
LongestLoopNoReset(dates, i, tempStreak, longestStreak) ==
  IF i > Len(dates) THEN longestStreak
  ELSE LET daysDiff == DaysBetween(NewDate(dates[i - 1]), NewDate(dates[i]))
       IN  IF daysDiff = 1
           THEN LongestLoopNoReset(dates, i + 1, tempStreak + 1,
                                   Max(longestStreak, tempStreak + 1))
           ELSE LongestLoopNoReset(dates, i + 1, tempStreak, longestStreak)

\* the loop "Calculate longest streak", from index i
RECURSIVE LongestLoop(_, _, _, _)
LongestLoop(dates, i, tempStreak, longestStreak) ==
  IF i > Len(dates) THEN longestStreak
  ELSE LET currentDate == NewDate(dates[i])
           prevDate == NewDate(dates[i - 1])
           daysDiff == DaysBetween(prevDate, currentDate)
       IN  IF daysDiff = 1
           THEN LongestLoop(dates, i + 1, tempStreak + 1,
                            Max(longestStreak, tempStreak + 1))
           ELSE LongestLoop(dates, i + 1, 1, longestStreak)

\* calculateStreaks without the progress.length === 0 return
calculateStreaksNoEmptyReturn(habitId, userId) ==
  LET dates == OrderDesc(CompletedRows(habitId, userId))
  IN  [currentStreak |-> CurrentLoop(dates, 1, 0),
       longestStreak |-> LongestLoop(dates, 2, 1, 1)]

\* the function when its read of the store answers with rows
calculateStreaks(habitId, userId) ==
  LET dates == OrderDesc(CompletedRows(habitId, userId))
  IN  IF Len(dates) = 0
      THEN [currentStreak |-> 0, longestStreak |-> 0]
      ELSE [currentStreak |-> CurrentLoop(dates, 1, 0),
            longestStreak |-> LongestLoop(dates, 2, 1, 1)]

\* what the awaited read of the store can do: resolve with rows, resolve with
\* an error, or reject
ReadOutcomes == {"data", "error", "throws"}

\* calculateStreaksWith without the try/catch: a rejected read reaches the caller
calculateStreaksNoCatch(habitId, userId, outcome) ==
  CASE outcome = "data" -> calculateStreaks(habitId, userId)
    [] outcome = "error" -> [currentStreak |-> 0, longestStreak |-> 0]
    [] outcome = "throws" -> [thrown |-> "error"]

\* the function under each outcome of its read: if (error || !progress ||
\* progress.length === 0) return zeros; catch (error) { return zeros }
calculateStreaksWith(habitId, userId, outcome) ==
  CASE outcome = "data" -> calculateStreaks(habitId, userId)
    [] outcome = "error" -> [currentStreak |-> 0, longestStreak |-> 0]
    [] outcome = "throws" -> [currentStreak |-> 0, longestStreak |-> 0]

-----------------------------------------------------------------------------
(* The rows and the requests *)

\* habitData of POST /api/habits: the row of a new habit
NewHabit(id, userId) ==
  [id |-> id, user_id |-> userId, is_active |-> TRUE,
   current_streak |-> 0, longest_streak |-> 0, total_completions |-> 0]

ProgressRow(id, userId, habitId, dateString, completed) ==
  [id |-> id, user_id |-> userId, habit_id |-> habitId,
   date |-> dateString, completed |-> completed]

Idle == [pc |-> "idle"]

NoRet == [called |-> FALSE, currentStreak |-> 0, longestStreak |-> 0]

\* no toggle has been noted
NoSnapshot == [phase |-> 0]

\* the times of day the clock and the requests' timestamps take
TimesOfDay == {0, HoursPerDay \div 2}

-----------------------------------------------------------------------------
(* calculateStreaks on its own: every completion set over 1..CalcDays, with *)
(* at most one record that is not completed, at every reference instant.    *)

CalcStores ==
  { {ProgressRow(d, "u1", "h1", d, TRUE) : d \in S} \cup
    {ProgressRow(d, "u1", "h1", d, FALSE) : d \in U} :
      <<S, U>> \in { su \in (SUBSET (1..CalcDays)) \X (SUBSET (1..CalcDays)) :
                       su[2] \cap su[1] = {} /\ Cardinality(su[2]) <= 1 } }

CalcInit ==
  /\ tz \in ServerOffsets
  /\ now \in {d * HoursPerDay + h : d \in 0..(CalcDays + 2), h \in TimesOfDay}
  /\ habits = {NewHabit("h1", "u1")}
  /\ progress \in CalcStores
  /\ nextId = CalcDays + 1
  /\ reqs = [r \in Slots |-> Idle]
  /\ ret = NoRet
  /\ shared = {}
  /\ noted = NoSnapshot
  /\ profiles = {}
  /\ accounts = {}

\* const { currentStreak, longestStreak } = await calculateStreaks(habitId, userId)
CalcCall ==
  /\ ~ret.called
  /\ ret' = [called |-> TRUE,
             currentStreak |-> calculateStreaks("h1", "u1").currentStreak,
             longestStreak |-> calculateStreaks("h1", "u1").longestStreak]
  /\ UNCHANGED <<tz, now, habits, progress, nextId, reqs, shared, noted,
                 profiles, accounts>>

\* stores in which the completed days were recorded in every possible order:
\* the primary keys are handed out in the order of creation
OrderStores ==
  UNION { { {ProgressRow(f[d], "u1", "h1", d, TRUE) : d \in S} :
              f \in {g \in [S -> 1..OrderDays] :
                       \A d, e \in S : d # e => g[d] # g[e]} } :
          S \in SUBSET (1..OrderDays) }

OrderInit ==
  /\ tz \in ServerOffsets
  /\ now \in {d * HoursPerDay + h : d \in 0..(OrderDays + 2), h \in TimesOfDay}
  /\ habits = {NewHabit("h1", "u1")}
  /\ progress \in OrderStores
  /\ nextId = OrderDays + 1
  /\ reqs = [r \in Slots |-> Idle]
  /\ ret = NoRet
  /\ shared = {}
  /\ noted = NoSnapshot
  /\ profiles = {}
  /\ accounts = {}

CalcNext == CalcCall

SpecOrder == OrderInit /\ [][CalcNext]_vars

\* CalcRead with the function itself storing the pair it computed in the habit row
CalcReadStoring(outcome) ==
  LET result == calculateStreaksWith("h1", "u1", outcome)
      calls == IF ret.called THEN ret.calls ELSE 0
  IN  /\ calls < MaxCalls
      /\ ret' = [called |-> TRUE, calls |-> calls + 1,
                 outcome |-> outcome, result |-> result]
      /\ habits' = {[h EXCEPT !.current_streak = result.currentStreak,
                              !.longest_streak = result.longestStreak] : h \in habits}
      /\ UNCHANGED <<tz, now, progress, nextId, reqs, shared, noted,
                     profiles, accounts>>

\* a call of calculateStreaks("h1", "u1") whose read of the store ends in the
\* given way; the calls are counted
CalcRead(outcome) ==
  LET calls == IF ret.called THEN ret.calls ELSE 0
  IN  /\ calls < MaxCalls
      /\ ret' = [called |-> TRUE, calls |-> calls + 1, outcome |-> outcome,
                 result |-> calculateStreaksWith("h1", "u1", outcome)]
      /\ UNCHANGED <<tz, now, habits, progress, nextId, reqs, shared, noted,
                     profiles, accounts>>

CalcErrNext == \E outcome \in ReadOutcomes : CalcRead(outcome)

SpecCalcErr == CalcInit /\ [][CalcErrNext]_vars

SpecCalc == CalcInit /\ [][CalcNext]_vars

-----------------------------------------------------------------------------
(* The routes.  A handler runs up to its next await in one step; each await *)
(* is one operation of the store.  Request bodies are the validated ones.   *)

\* the instants the requests' date fields name
ReqInstants == {d * HoursPerDay + h : d \in 1..MaxDay, h \in TimesOfDay}

\* the clock runs to the end of the day after the last day a request names
LastInstant == (MaxDay + 2) * HoursPerDay - 1

AllIdle == \A r \in Slots : reqs[r].pc = "idle"

\* .from('habits').select(...).eq('id', habitId).eq('user_id', userId)
HabitRows(habitId, userId) ==
  {h \in habits : h.id = habitId /\ h.user_id = userId}

\* .from('progress').select('*').eq('user_id').eq('habit_id').eq('date', dateString)
ProgressOn(habitId, userId, dateString) ==
  {p \in progress : p.user_id = userId /\ p.habit_id = habitId /\ p.date = dateString}

\* progressDate = new Date(date); progressDate.setHours(0, 0, 0, 0);
\* dateString = progressDate.toISOString().split('T')[0]
DateString(date) == ToISODate(SetHoursZero(date))

\* POST /api/habits: one insert
HabitCreate(userId, id) ==
  /\ id \notin {h.id : h \in habits}
  /\ habits' = habits \cup {NewHabit(id, userId)}
  /\ UNCHANGED <<tz, now, progress, nextId, reqs, ret, shared, noted,
                 profiles, accounts>>

\* PUT /api/habits/:id, to the ownership check.  Of the columns updateData can
\* carry (name, description, emoji, category, color, is_active) the rows keep
\* is_active; updateData never carries a streak column.
HabitUpdateCheck(r, userId, habitId, is_active) ==
  /\ reqs[r].pc = "idle"
  /\ reqs' = [reqs EXCEPT ![r] =
       IF HabitRows(habitId, userId) = {}
       THEN [pc |-> "done", kind |-> "update", status |-> 404,
             userId |-> userId, habitId |-> habitId]
       ELSE [pc |-> "put", kind |-> "update", userId |-> userId,
             habitId |-> habitId, is_active |-> is_active]]
  /\ UNCHANGED <<tz, now, habits, progress, nextId, ret, shared, noted,
                 profiles, accounts>>

\* PUT /api/habits/:id: .update(updateData).eq('id').eq('user_id').select().single()
HabitUpdateWrite(r) ==
  LET q == reqs[r]
      hit == HabitRows(q.habitId, q.userId)
  IN  /\ q.pc = "put"
      /\ habits' = (habits \ hit) \cup {[h EXCEPT !.is_active = q.is_active] : h \in hit}
      /\ reqs' = [reqs EXCEPT ![r] =
           [pc |-> "done", kind |-> "update", userId |-> q.userId, habitId |-> q.habitId,
            status |-> IF hit = {} THEN 500 ELSE 200]]
      /\ UNCHANGED <<tz, now, progress, nextId, ret, shared, noted,
                     profiles, accounts>>

\* POST /api/progress/toggle, to the ownership check ("Verify habit belongs to
\* user") and the normalisation of the date
ToggleVerified(userId, habitId, date) ==
  IF HabitRows(habitId, userId) = {}
  THEN [pc |-> "done", kind |-> "toggle", status |-> 404,
        userId |-> userId, habitId |-> habitId]
  ELSE [pc |-> "find", kind |-> "toggle", userId |-> userId,
        habitId |-> habitId, dateString |-> DateString(date)]

\* POST /api/progress/toggle arriving in slot r
ToggleVerify(r, userId, habitId, date) ==
  /\ reqs[r].pc = "idle"
  /\ reqs' = [reqs EXCEPT ![r] = ToggleVerified(userId, habitId, date)]
  /\ UNCHANGED <<tz, now, habits, progress, nextId, ret, shared, noted,
                 profiles, accounts>>

\* the rows whose insert is decided but not yet issued
Inserting == {r \in Slots : reqs[r].pc = "insert"}

\* "Find existing progress entry": .single() yields the row when exactly one
\* matches, and an error otherwise
ToggleFind(r) ==
  LET q == reqs[r]
      found == ProgressOn(q.habitId, q.userId, q.dateString)
  IN  /\ q.pc = "find"
      /\ IF Cardinality(found) = 1
         THEN LET existingProgress == CHOOSE p \in found : TRUE
              IN  reqs' = [reqs EXCEPT ![r] =
                    [pc |-> "update", kind |-> "toggle", userId |-> q.userId,
                     habitId |-> q.habitId, dateString |-> q.dateString,
                     existingId |-> existingProgress.id,
                     existingCompleted |-> existingProgress.completed]]
         ELSE /\ nextId + Cardinality(Inserting) <= MaxRecords
              /\ reqs' = [reqs EXCEPT ![r] =
                    [pc |-> "insert", kind |-> "toggle", userId |-> q.userId,
                     habitId |-> q.habitId, dateString |-> q.dateString]]
      /\ UNCHANGED <<tz, now, habits, progress, nextId, ret, shared, noted,
                     profiles, accounts>>

\* ToggleUpdate writing completed: true whatever the record held
ToggleUpdateAlwaysTrue(r) ==
  LET q == reqs[r]
      hit == {p \in progress : p.id = q.existingId}
  IN  /\ q.pc = "update"
      /\ progress' = (progress \ hit) \cup {[p EXCEPT !.completed = TRUE] : p \in hit}
      /\ reqs' = [reqs EXCEPT ![r] =
           [pc |-> "calc", kind |-> "toggle", userId |-> q.userId,
            habitId |-> q.habitId, dateString |-> q.dateString,
            wrote |-> "update"]]
      /\ UNCHANGED <<tz, now, habits, nextId, ret, shared, noted,
                     profiles, accounts>>

\* "Toggle existing progress": .update({completed: !existingProgress.completed})
\* .eq('id', existingProgress.id).select().single()
ToggleUpdate(r) ==
  LET q == reqs[r]
      hit == {p \in progress : p.id = q.existingId}
  IN  /\ q.pc = "update"
      /\ progress' = (progress \ hit) \cup
                     {[p EXCEPT !.completed = ~q.existingCompleted] : p \in hit}
      /\ reqs' = [reqs EXCEPT ![r] =
           IF hit = {}
           THEN [pc |-> "done", kind |-> "toggle", status |-> 500,
                 userId |-> q.userId, habitId |-> q.habitId]
           ELSE [pc |-> "calc", kind |-> "toggle", userId |-> q.userId,
                 habitId |-> q.habitId, dateString |-> q.dateString,
                 wrote |-> "update"]]
      /\ UNCHANGED <<tz, now, habits, nextId, ret, shared, noted,
                     profiles, accounts>>

\* ToggleInsert creating the record with completed: false
ToggleInsertNotCompleted(r) ==
  LET q == reqs[r]
  IN  /\ q.pc = "insert"
      /\ progress' = progress \cup
           {ProgressRow(nextId, q.userId, q.habitId, q.dateString, FALSE)}
      /\ nextId' = nextId + 1
      /\ reqs' = [reqs EXCEPT ![r] =
           [pc |-> "calc", kind |-> "toggle", userId |-> q.userId,
            habitId |-> q.habitId, dateString |-> q.dateString,
            wrote |-> "insert"]]
      /\ UNCHANGED <<tz, now, habits, ret, shared, noted, profiles, accounts>>

\* "Create new progress entry": .insert([{..., date: dateString, completed: true}])
ToggleInsert(r) ==
  LET q == reqs[r]
  IN  /\ q.pc = "insert"
      /\ progress' = progress \cup
           {ProgressRow(nextId, q.userId, q.habitId, q.dateString, TRUE)}
      /\ nextId' = nextId + 1
      /\ reqs' = [reqs EXCEPT ![r] =
           [pc |-> "calc", kind |-> "toggle", userId |-> q.userId,
            habitId |-> q.habitId, dateString |-> q.dateString,
            wrote |-> "insert"]]
      /\ UNCHANGED <<tz, now, habits, ret, shared, noted, profiles, accounts>>

\* const { currentStreak, longestStreak } = await calculateStreaks(habitId, req.userId)
ToggleCalc(r) ==
  LET q == reqs[r]
      streaks == calculateStreaks(q.habitId, q.userId)
  IN  /\ q.pc = "calc"
      /\ reqs' = [reqs EXCEPT ![r] =
           [pc |-> "count", kind |-> "toggle", userId |-> q.userId,
            habitId |-> q.habitId, dateString |-> q.dateString, wrote |-> q.wrote,
            currentStreak |-> streaks.currentStreak,
            longestStreak |-> streaks.longestStreak]]
      /\ UNCHANGED <<tz, now, habits, progress, nextId, ret, shared, noted,
                     profiles, accounts>>

\* ToggleCount without .eq('completed', true): every record of the habit counts
ToggleCountAllRecords(r) ==
  LET q == reqs[r]
  IN  /\ q.pc = "count"
      /\ reqs' = [reqs EXCEPT ![r] =
           [pc |-> "write", kind |-> "toggle", userId |-> q.userId,
            habitId |-> q.habitId, dateString |-> q.dateString, wrote |-> q.wrote,
            currentStreak |-> q.currentStreak,
            longestStreak |-> q.longestStreak,
            totalCompletions |->
              Cardinality({p \in progress : p.habit_id = q.habitId /\ p.user_id = q.userId})]]
      /\ UNCHANGED <<tz, now, habits, progress, nextId, ret, shared, noted,
                     profiles, accounts>>

\* completionCount: .select('id', {count: 'exact'}) ... .eq('completed', true);
\* totalCompletions = completionCount?.length || 0
ToggleCount(r) ==
  LET q == reqs[r]
  IN  /\ q.pc = "count"
      /\ reqs' = [reqs EXCEPT ![r] =
           [pc |-> "write", kind |-> "toggle", userId |-> q.userId,
            habitId |-> q.habitId, dateString |-> q.dateString, wrote |-> q.wrote,
            currentStreak |-> q.currentStreak,
            longestStreak |-> q.longestStreak,
            totalCompletions |-> Cardinality(CompletedRows(q.habitId, q.userId))]]
      /\ UNCHANGED <<tz, now, habits, progress, nextId, ret, shared, noted,
                     profiles, accounts>>

\* ToggleWrite without current_streak in the update
ToggleWriteNoCurrent(r) ==
  LET q == reqs[r]
      hit == HabitRows(q.habitId, q.userId)
  IN  /\ q.pc = "write"
      /\ habits' = (habits \ hit) \cup
           {[h EXCEPT !.longest_streak = q.longestStreak,
                      !.total_completions = q.totalCompletions] : h \in hit}
      /\ reqs' = [reqs EXCEPT ![r] =
           [pc |-> "done", kind |-> "toggle", status |-> 200,
            userId |-> q.userId, habitId |-> q.habitId,
            dateString |-> q.dateString, wrote |-> q.wrote]]
      /\ UNCHANGED <<tz, now, progress, nextId, ret, shared, noted,
                     profiles, accounts>>

\* ToggleWrite without longest_streak in the update
ToggleWriteNoLongest(r) ==
  LET q == reqs[r]
      hit == HabitRows(q.habitId, q.userId)
  IN  /\ q.pc = "write"
      /\ habits' = (habits \ hit) \cup
           {[h EXCEPT !.current_streak = q.currentStreak,
                      !.total_completions = q.totalCompletions] : h \in hit}
      /\ reqs' = [reqs EXCEPT ![r] =
           [pc |-> "done", kind |-> "toggle", status |-> 200,
            userId |-> q.userId, habitId |-> q.habitId,
            dateString |-> q.dateString, wrote |-> q.wrote]]
      /\ UNCHANGED <<tz, now, progress, nextId, ret, shared, noted,
                     profiles, accounts>>

\* ToggleWrite storing the current streak in the longest_streak column too
ToggleWriteCurrentAsLongest(r) ==
  LET q == reqs[r]
      hit == HabitRows(q.habitId, q.userId)
  IN  /\ q.pc = "write"
      /\ habits' = (habits \ hit) \cup
           {[h EXCEPT !.current_streak = q.currentStreak,
                      !.longest_streak = q.currentStreak,
                      !.total_completions = q.totalCompletions] : h \in hit}
      /\ reqs' = [reqs EXCEPT ![r] =
           [pc |-> "done", kind |-> "toggle", status |-> 200,
            userId |-> q.userId, habitId |-> q.habitId,
            dateString |-> q.dateString, wrote |-> q.wrote]]
      /\ UNCHANGED <<tz, now, progress, nextId, ret, shared, noted,
                     profiles, accounts>>

\* .from('habits').update({current_streak, longest_streak, total_completions})
\* .eq('id', habitId).eq('user_id', req.userId); then res.json(progress)
ToggleWrite(r) ==
  LET q == reqs[r]
      hit == HabitRows(q.habitId, q.userId)
  IN  /\ q.pc = "write"
      /\ habits' = (habits \ hit) \cup
           {[h EXCEPT !.current_streak = q.currentStreak,
                      !.longest_streak = q.longestStreak,
                      !.total_completions = q.totalCompletions] : h \in hit}
      /\ reqs' = [reqs EXCEPT ![r] =
           [pc |-> "done", kind |-> "toggle", status |-> 200,
            userId |-> q.userId, habitId |-> q.habitId,
            dateString |-> q.dateString, wrote |-> q.wrote]]
      /\ UNCHANGED <<tz, now, progress, nextId, ret, shared, noted,
                     profiles, accounts>>

\* DELETE /api/habits/:id, to the ownership check ("Check if habit belongs to user")
HabitDeleteCheck(r, userId, habitId) ==
  /\ reqs[r].pc = "idle"
  /\ reqs' = [reqs EXCEPT ![r] =
       IF HabitRows(habitId, userId) = {}
       THEN [pc |-> "done", kind |-> "delete", status |-> 404,
             userId |-> userId, habitId |-> habitId]
       ELSE [pc |-> "delprogress", kind |-> "delete", userId |-> userId,
             habitId |-> habitId]]
  /\ UNCHANGED <<tz, now, habits, progress, nextId, ret, shared, noted,
                 profiles, accounts>>

\* "Delete all progress entries for this habit":
\* .from('progress').delete().eq('habit_id', habitId).eq('user_id', req.userId)
HabitDeleteProgress(r) ==
  LET q == reqs[r]
  IN  /\ q.pc = "delprogress"
      /\ progress' = {p \in progress :
                        ~(p.habit_id = q.habitId /\ p.user_id = q.userId)}
      /\ reqs' = [reqs EXCEPT ![r] =
           [pc |-> "delhabit", kind |-> "delete", userId |-> q.userId,
            habitId |-> q.habitId]]
      /\ UNCHANGED <<tz, now, habits, nextId, ret, shared, noted,
                     profiles, accounts>>

\* "Delete the habit": .from('habits').delete().eq('id', habitId)
\* .eq('user_id', req.userId); then res.json({message: 'Habit deleted successfully'})
HabitDeleteHabit(r) ==
  LET q == reqs[r]
  IN  /\ q.pc = "delhabit"
      /\ habits' = habits \ HabitRows(q.habitId, q.userId)
      /\ reqs' = [reqs EXCEPT ![r] =
           [pc |-> "done", kind |-> "delete", status |-> 200,
            userId |-> q.userId, habitId |-> q.habitId]]
      /\ UNCHANGED <<tz, now, progress, nextId, ret, shared, noted,
                     profiles, accounts>>

\* .from('habits').select(...).eq('user_id', req.userId).eq('is_active', true)
ActiveHabits(userId) == {h \in habits : h.user_id = userId /\ h.is_active}

\* habits.reduce((sum, h) => sum + (h.total_completions || 0), 0)
RECURSIVE SumCompletions(_)
SumCompletions(rows) ==
  IF rows = {} THEN 0
  ELSE LET h == CHOOSE x \in rows : TRUE
       IN  h.total_completions + SumCompletions(rows \ {h})

\* Math.max(...habits.map(h => h.longest_streak || 0), 0)
MaxLongest(rows) ==
  CHOOSE m \in {h.longest_streak : h \in rows} \cup {0} :
    \A h \in rows : h.longest_streak <= m

\* the share requests that have not yet stored their row
Sharing == {r \in Slots : reqs[r].pc \in {"stats", "top", "store"}}

\* shareId = `${req.userId}_${Date.now()}_${random}`: an identifier no row of
\* the table and no request in flight holds
FreshShareId ==
  CHOOSE n \in 1..(Cardinality(shared) + Cardinality(Sharing) + 1) :
    /\ n \notin {s.share_id : s \in shared}
    /\ n \notin {reqs[r].share_id : r \in Sharing}

\* the values the body's includeStats and includeHabits take: true, false, or
\* left out of the body
BodyFlags == {"true", "false", "absent"}

\* POST /api/share/create, to its first await: shareData is built, with
\* include_stats: includeStats !== false and include_habits: includeHabits !== false
ShareStart(r, userId, includeStats, includeHabits) ==
  /\ reqs[r].pc = "idle"
  /\ Cardinality(shared) + Cardinality(Sharing) < MaxShares
  /\ reqs' = [reqs EXCEPT ![r] =
       [pc |-> IF includeStats = "true" THEN "stats"
               ELSE IF includeHabits = "true" THEN "top" ELSE "store",
        kind |-> "share", userId |-> userId, share_id |-> FreshShareId,
        includeHabits |-> includeHabits,
        include_stats |-> (includeStats # "false"),
        include_habits |-> (includeHabits # "false"),
        stats |-> <<>>, habits |-> <<>>]]
  /\ UNCHANGED <<tz, now, habits, progress, nextId, ret, shared, noted,
                 profiles, accounts>>

\* if (includeStats): "Get basic stats"; shareData.stats = {...}
ShareStats(r) ==
  LET q == reqs[r]
      rows == ActiveHabits(q.userId)
  IN  /\ q.pc = "stats"
      /\ reqs' = [reqs EXCEPT ![r] =
           [q EXCEPT !.pc = IF q.includeHabits = "true" THEN "top" ELSE "store",
                     !.stats = <<[totalHabits |-> Cardinality(rows),
                                  totalCompletions |-> SumCompletions(rows),
                                  longestStreak |-> MaxLongest(rows)]>>]]
      /\ UNCHANGED <<tz, now, habits, progress, nextId, ret, shared, noted,
                     profiles, accounts>>

\* if (includeHabits): "Get top habits" (.limit(5): a user of the model has
\* fewer habits than five); shareData.habits = topHabits
ShareTop(r) ==
  LET q == reqs[r]
      rows == ActiveHabits(q.userId)
  IN  /\ q.pc = "top"
      /\ reqs' = [reqs EXCEPT ![r] =
           [q EXCEPT !.pc = "store",
                     !.habits = <<{[name |-> h.id, current_streak |-> h.current_streak] :
                                     h \in rows}>>]]
      /\ UNCHANGED <<tz, now, habits, progress, nextId, ret, shared, noted,
                     profiles, accounts>>

\* "Store shareable data": .from('shared_progress').insert([shareData]); 201.
\* stats and habits are held as a sequence: empty when shareData has no such key
ShareStore(r) ==
  LET q == reqs[r]
  IN  /\ q.pc = "store"
      /\ shared' = shared \cup
           {[share_id |-> q.share_id, user_id |-> q.userId,
             include_stats |-> q.include_stats, include_habits |-> q.include_habits,
             stats |-> q.stats, habits |-> q.habits]}
      /\ reqs' = [reqs EXCEPT ![r] =
           [pc |-> "done", kind |-> "share", status |-> 201,
            userId |-> q.userId, share_id |-> q.share_id]]
      /\ UNCHANGED <<tz, now, habits, progress, nextId, ret, noted,
                     profiles, accounts>>

\* ShareDelete without .eq('user_id', req.userId)
ShareDeleteAnyOwner(r, userId, shareId) ==
  /\ reqs[r].pc = "idle"
  /\ shared' = {s \in shared : s.share_id # shareId}
  /\ reqs' = [reqs EXCEPT ![r] =
       [pc |-> "done", kind |-> "unshare", status |-> 200,
        userId |-> userId, share_id |-> shareId]]
  /\ UNCHANGED <<tz, now, habits, progress, nextId, ret, noted,
                 profiles, accounts>>

\* DELETE /api/share/:shareId: .from('shared_progress').delete()
\* .eq('share_id', shareId).eq('user_id', req.userId); then 200
ShareDelete(r, userId, shareId) ==
  /\ reqs[r].pc = "idle"
  /\ shared' = {s \in shared : ~(s.share_id = shareId /\ s.user_id = userId)}
  /\ reqs' = [reqs EXCEPT ![r] =
       [pc |-> "done", kind |-> "unshare", status |-> 200,
        userId |-> userId, share_id |-> shareId]]
  /\ UNCHANGED <<tz, now, habits, progress, nextId, ret, noted,
                 profiles, accounts>>

\* GET /api/share/:shareId (public), to the read of the link: .single() yields
\* the row when exactly one matches; expires_at is null on every row that
\* POST /api/share/create stores, so the 410 branch is never taken
ShareGetFind(r, shareId) ==
  LET found == {s \in shared : s.share_id = shareId}
  IN  /\ reqs[r].pc = "idle"
      /\ reqs' = [reqs EXCEPT ![r] =
           IF Cardinality(found) = 1
           THEN [pc |-> "profile", kind |-> "view", share_id |-> shareId,
                 shareRecord |-> CHOOSE s \in found : TRUE]
           ELSE [pc |-> "done", kind |-> "view", status |-> 404,
                 share_id |-> shareId]]
      /\ UNCHANGED <<tz, now, habits, progress, nextId, ret, shared, noted,
                     profiles, accounts>>

\* GET /api/share/:shareId: "Get user profile for display", then responseData:
\* stats if include_stats && stats, habits if include_habits && habits
ShareGetRespond(r) ==
  LET q == reqs[r]
      shareRecord == q.shareRecord
      profile == {x \in profiles : x.id = shareRecord.user_id}
  IN  /\ q.pc = "profile"
      /\ q.kind = "view"
      /\ reqs' = [reqs EXCEPT ![r] =
           [pc |-> "done", kind |-> "view", status |-> 200, share_id |-> q.share_id,
            name |-> IF Cardinality(profile) = 1
                     THEN (CHOOSE x \in profile : TRUE).name ELSE "Anonymous User",
            stats |-> IF shareRecord.include_stats /\ shareRecord.stats # <<>>
                      THEN shareRecord.stats ELSE <<>>,
            habits |-> IF shareRecord.include_habits /\ shareRecord.habits # <<>>
                       THEN shareRecord.habits ELSE <<>>]]
      /\ UNCHANGED <<tz, now, habits, progress, nextId, ret, shared, noted,
                     profiles, accounts>>

\* POST /api/auth/register: supabase.auth.admin.createUser (an address already
\* registered is refused: 400)
RegisterCreate(r, userId) ==
  /\ reqs[r].pc = "idle"
  /\ accounts' = accounts \cup {userId}
  /\ reqs' = [reqs EXCEPT ![r] =
       IF userId \in accounts
       THEN [pc |-> "done", kind |-> "register", status |-> 400, userId |-> userId]
       ELSE [pc |-> "profile", kind |-> "register", userId |-> userId]]
  /\ UNCHANGED <<tz, now, habits, progress, nextId, ret, shared, noted, profiles>>

\* POST /api/auth/register: "Create user profile in profiles table", then 201
RegisterProfile(r) ==
  LET q == reqs[r]
  IN  /\ q.pc = "profile"
      /\ q.kind = "register"
      /\ profiles' = profiles \cup {[id |-> q.userId, name |-> q.userId]}
      /\ reqs' = [reqs EXCEPT ![r] =
           [pc |-> "done", kind |-> "register", status |-> 201, userId |-> q.userId]]
      /\ UNCHANGED <<tz, now, habits, progress, nextId, ret, shared, noted, accounts>>

\* DELETE /api/users/account: "Delete user's progress"
AccountDeleteProgress(r, userId) ==
  /\ reqs[r].pc = "idle"
  /\ progress' = {p \in progress : p.user_id # userId}
  /\ reqs' = [reqs EXCEPT ![r] =
       [pc |-> "acchabits", kind |-> "account", userId |-> userId]]
  /\ UNCHANGED <<tz, now, habits, nextId, ret, shared, noted, profiles, accounts>>

\* DELETE /api/users/account: "Delete user's habits"
AccountDeleteHabits(r) ==
  LET q == reqs[r]
  IN  /\ q.pc = "acchabits"
      /\ habits' = {h \in habits : h.user_id # q.userId}
      /\ reqs' = [reqs EXCEPT ![r] = [q EXCEPT !.pc = "accprofile"]]
      /\ UNCHANGED <<tz, now, progress, nextId, ret, shared, noted,
                     profiles, accounts>>

\* DELETE /api/users/account: "Delete user's profile"
AccountDeleteProfile(r) ==
  LET q == reqs[r]
  IN  /\ q.pc = "accprofile"
      /\ profiles' = {x \in profiles : x.id # q.userId}
      /\ reqs' = [reqs EXCEPT ![r] = [q EXCEPT !.pc = "accuser"]]
      /\ UNCHANGED <<tz, now, habits, progress, nextId, ret, shared, noted, accounts>>

\* DELETE /api/users/account: "Delete user from auth":
\* supabase.auth.admin.deleteUser(req.userId); then 'Account deleted successfully'
AccountDeleteUser(r) ==
  LET q == reqs[r]
  IN  /\ q.pc = "accuser"
      /\ accounts' = accounts \ {q.userId}
      /\ reqs' = [reqs EXCEPT ![r] =
           [pc |-> "done", kind |-> "account", status |-> 200, userId |-> q.userId]]
      /\ UNCHANGED <<tz, now, habits, progress, nextId, ret, shared, noted, profiles>>

\* the values of the query's habitId: a habit's id, or left out
HabitFilters == {"none"} \cup TwoHabits

\* GET /api/progress/stats: endDate = new Date(); startDate.setDate(
\* startDate.getDate() - parseInt(days)) is the instant days whole days back
\* (the zone has no shifts); both are cut to their UTC day by toISOString.
\* The rows of the user between the two date strings are read, those of one
\* habit if (habitId); completionRate is kept in hundredths of a percent
StatsGet(r, userId, habitId, days) ==
  LET endDateString == ToISODate(now)
      startDateString == ToISODate(now - days * HoursPerDay)
      rows == {p \in progress :
                 /\ p.user_id = userId
                 /\ p.date >= startDateString
                 /\ p.date <= endDateString
                 /\ habitId # "none" => p.habit_id = habitId}
      completedDays == Cardinality({p \in rows : p.completed})
      totalDays == days
  IN  /\ reqs[r].pc = "idle"
      /\ reqs' = [reqs EXCEPT ![r] =
           [pc |-> "done", kind |-> "stats", status |-> 200, userId |-> userId,
            completedDays |-> completedDays,
            totalDays |-> totalDays,
            completionRate |-> IF totalDays > 0
                               THEN (2 * 10000 * completedDays + totalDays)
                                      \div (2 * totalDays)
                               ELSE 0,
            missedDays |-> totalDays - completedDays]]
      /\ UNCHANGED <<tz, now, habits, progress, nextId, ret, shared, noted,
                     profiles, accounts>>

\* the response has gone out: the handler is over
Respond(r) ==
  /\ reqs[r].pc = "done"
  /\ reqs' = [reqs EXCEPT ![r] = Idle]
  /\ UNCHANGED <<tz, now, habits, progress, nextId, ret, shared, noted,
                 profiles, accounts>>

\* a day passes
Tick ==
  /\ AllIdle
  /\ now + HoursPerDay <= LastInstant
  /\ now' = now + HoursPerDay
  /\ UNCHANGED <<tz, habits, progress, nextId, reqs, ret, shared, noted,
                 profiles, accounts>>

\* the state after construction: an empty store, at noon (UTC) of day 1
Init ==
  /\ tz \in ServerOffsets
  /\ now = HoursPerDay + HoursPerDay \div 2
  /\ habits = {}
  /\ progress = {}
  /\ nextId = 1
  /\ reqs = [r \in Slots |-> Idle]
  /\ ret = NoRet
  /\ shared = {}
  /\ noted = NoSnapshot
  /\ profiles = {}
  /\ accounts = {}

\* a step of a handler in flight
Step(r) ==
  \/ HabitUpdateWrite(r)
  \/ ToggleFind(r)
  \/ ToggleUpdate(r)
  \/ ToggleInsert(r)
  \/ ToggleCalc(r)
  \/ ToggleCount(r)
  \/ ToggleWrite(r)
  \/ Respond(r)

\* a request arrives, and takes the first free slot
Arrive(r) ==
  /\ \A s \in Slots : s < r => reqs[s].pc # "idle"
  /\ \/ \E u \in Users, h \in HabitIds, a \in BOOLEAN : HabitUpdateCheck(r, u, h, a)
     \/ \E u \in Users, h \in HabitIds, t \in ReqInstants : ToggleVerify(r, u, h, t)

\* requests interleave at their awaits
Next ==
  \/ \E u \in Users, h \in HabitIds : HabitCreate(u, h)
  \/ \E r \in Slots : Arrive(r)
  \/ \E r \in Slots : Step(r)
  \/ Tick

Spec == Init /\ [][Next]_vars

\* requests run one at a time: one arrives only when no other is in flight
SeqNext ==
  \/ AllIdle /\ \E u \in Users, h \in HabitIds : HabitCreate(u, h)
  \/ AllIdle /\ \E r \in Slots : Arrive(r)
  \/ \E r \in Slots : Step(r)
  \/ Tick

SpecSeq == Init /\ [][SeqNext]_vars

\* the steps of a toggle after its arrival
ToggleStep(r) ==
  \/ ToggleFind(r)
  \/ ToggleUpdate(r)
  \/ ToggleInsert(r)
  \/ ToggleCalc(r)
  \/ ToggleCount(r)
  \/ ToggleWrite(r)
  \/ Respond(r)

\* the steps of the habit handlers after their arrival
HabitStep(r) ==
  \/ HabitUpdateWrite(r)
  \/ HabitDeleteProgress(r)
  \/ HabitDeleteHabit(r)

\* the first of two toggles of one (habit, day) arrives, no request being in
\* flight; what the store holds for the habit is noted
TwiceFirst(userId, habitId, date) ==
  /\ AllIdle
  /\ noted.phase = 0
  /\ reqs' = [reqs EXCEPT ![1] = ToggleVerified(userId, habitId, date)]
  /\ noted' = [phase |-> 1, userId |-> userId, habitId |-> habitId, date |-> date,
                days |-> {p.date : p \in CompletedRows(habitId, userId)},
                rows |-> HabitRows(habitId, userId),
                fresh |-> \A h \in HabitRows(habitId, userId) :
                  /\ h.current_streak = calculateStreaks(habitId, userId).currentStreak
                  /\ h.longest_streak = calculateStreaks(habitId, userId).longestStreak
                  /\ h.total_completions = Cardinality(CompletedRows(habitId, userId))]
  /\ UNCHANGED <<tz, now, habits, progress, nextId, ret, shared,
                 profiles, accounts>>

\* the first toggle has been answered; the same toggle arrives again
TwiceSecond ==
  /\ AllIdle
  /\ noted.phase = 1
  /\ reqs' = [reqs EXCEPT ![1] = ToggleVerified(noted.userId, noted.habitId, noted.date)]
  /\ noted' = [noted EXCEPT !.phase = 2]
  /\ UNCHANGED <<tz, now, habits, progress, nextId, ret, shared,
                 profiles, accounts>>

\* requests one at a time, as in SeqNext, until some toggle is sent twice in a
\* row with nothing in between
TwiceNext ==
  \/ noted.phase = 0 /\ AllIdle /\ \E u \in Users, h \in HabitIds : HabitCreate(u, h)
  \/ noted.phase = 0 /\ AllIdle /\ \E r \in Slots : Arrive(r)
  \/ \E r \in Slots : Step(r)
  \/ noted.phase = 0 /\ Tick
  \/ \E u \in Users, h \in HabitIds, t \in ReqInstants : TwiceFirst(u, h, t)
  \/ TwiceSecond

SpecTwice == Init /\ [][TwiceNext]_vars

\* one habit, its toggles and its deletion interleaving freely
DelArrive(r) ==
  /\ \A s \in Slots : s < r => reqs[s].pc # "idle"
  /\ \/ \E u \in Users, h \in HabitIds : HabitDeleteCheck(r, u, h)
     \/ \E u \in Users, h \in HabitIds, t \in ReqInstants : ToggleVerify(r, u, h, t)

DelNext ==
  \/ \E u \in Users, h \in HabitIds : HabitCreate(u, h)
  \/ \E r \in Slots : DelArrive(r)
  \/ \E r \in Slots : ToggleStep(r) \/ HabitDeleteProgress(r) \/ HabitDeleteHabit(r)

SpecDel == Init /\ [][DelNext]_vars

\* two users, each request authenticated as either and naming either habit or
\* link; the requests run one at a time, a toggle names the present instant,
\* and the links are created without snapshots (the body's flags false or absent)
OwnUsers == {"u1", "u2"}

OwnNext ==
  \/ AllIdle /\ \E u \in OwnUsers, h \in TwoHabits : HabitCreate(u, h)
  \/ AllIdle /\ \E u \in OwnUsers, h \in TwoHabits : ToggleVerify(1, u, h, now)
  \/ AllIdle /\ \E u \in OwnUsers, h \in TwoHabits, a \in BOOLEAN :
                  HabitUpdateCheck(1, u, h, a)
  \/ AllIdle /\ \E u \in OwnUsers, h \in TwoHabits : HabitDeleteCheck(1, u, h)
  \/ AllIdle /\ \E u \in OwnUsers, i \in {"false", "absent"} : ShareStart(1, u, i, i)
  \/ AllIdle /\ \E u \in OwnUsers, n \in 1..MaxShares : ShareDelete(1, u, n)
  \/ \E r \in Slots : ToggleStep(r) \/ HabitStep(r) \/ ShareStore(r)

SpecOwn == Init /\ [][OwnNext]_vars

\* the auth middleware: the bearer token is that of a user of the auth service
Authenticated(userId) == userId \in accounts

\* one user registers, keeps a habit, toggles it, and creates, views and
\* deletes share links, with every body POST /api/share/create accepts; the
\* requests run one at a time
ShareNext ==
  \/ AllIdle /\ \E u \in Users : RegisterCreate(1, u)
  \/ AllIdle /\ \E u \in Users, h \in HabitIds : Authenticated(u) /\ HabitCreate(u, h)
  \/ AllIdle /\ \E u \in Users, h \in HabitIds :
                  Authenticated(u) /\ ToggleVerify(1, u, h, now)
  \/ AllIdle /\ \E u \in Users, i, j \in BodyFlags :
                  Authenticated(u) /\ ShareStart(1, u, i, j)
  \/ AllIdle /\ \E n \in 1..MaxShares : ShareGetFind(1, n)
  \/ AllIdle /\ \E u \in Users, n \in 1..MaxShares :
                  Authenticated(u) /\ ShareDelete(1, u, n)
  \/ \E r \in Slots : \/ ToggleStep(r)
                       \/ ShareStats(r) \/ ShareTop(r) \/ ShareStore(r)
                       \/ ShareGetRespond(r)
                       \/ RegisterProfile(r)

SpecShare == Init /\ [][ShareNext]_vars

\* the same, and the user can delete the account
AccountNext ==
  \/ ShareNext
  \/ AllIdle /\ \E u \in Users : Authenticated(u) /\ AccountDeleteProgress(1, u)
  \/ \E r \in Slots : \/ AccountDeleteHabits(r)
                       \/ AccountDeleteProfile(r)
                       \/ AccountDeleteUser(r)

SpecAccount == Init /\ [][AccountNext]_vars

\* one user with two habits toggles days and asks for the statistics, with
\* and without a habit filter; the requests run one at a time
StatsNext ==
  \/ AllIdle /\ \E h \in TwoHabits : HabitCreate("u1", h)
  \/ AllIdle /\ \E h \in TwoHabits, t \in ReqInstants : ToggleVerify(1, "u1", h, t)
  \/ AllIdle /\ \E f \in HabitFilters, days \in 1..MaxStatsDays :
                  StatsGet(1, "u1", f, days)
  \/ \E r \in Slots : ToggleStep(r)
  \/ Tick

SpecStats == Init /\ [][StatsNext]_vars

\* two habits of one user; the toggles of a habit come one after another (they
\* share a slot) while the toggles of different habits interleave freely
HabitOfSlot(r) == IF r = 1 THEN "h1" ELSE "h2"

TwoNext ==
  \/ \E h \in TwoHabits : HabitCreate("u1", h)
  \/ \E r \in Slots, t \in ReqInstants : ToggleVerify(r, "u1", HabitOfSlot(r), t)
  \/ \E r \in Slots : ToggleStep(r)
  \/ Tick

SpecTwo == Init /\ [][TwoNext]_vars

-----------------------------------------------------------------------------
(* What the claims speak of *)

\* the calendar day at the server
ServerDay == (now + tz) \div HoursPerDay

\* the days on which the habit is marked completed
CompletedDates(habitId, userId) == {p.date : p \in CompletedRows(habitId, userId)}

CalcDates == CompletedDates("h1", "u1")

MaxOf(S) == CHOOSE d \in S : \A e \in S : e <= d

\* the number of days of the maximal run of consecutive days of S ending at d
RECURSIVE RunEndingAt(_, _)
RunEndingAt(S, d) == IF d \in S THEN 1 + RunEndingAt(S, d - 1) ELSE 0

\* the length of the longest run of consecutive days in S
LongestRun(S) ==
  IF S = {} THEN 0 ELSE MaxOf({RunEndingAt(S, d) : d \in S})

\* the most recent completed date is today or yesterday
Recent(S) == S # {} /\ MaxOf(S) \in {ServerDay, ServerDay - 1}

\* C1: when the most recent completed date is today or yesterday, currentStreak
\* is the length of the run of consecutive days ending at that date.
C1_CurrentStreakIsRecentRun ==
  (ret.called /\ Recent(CalcDates))
    => ret.currentStreak = RunEndingAt(CalcDates, MaxOf(CalcDates))

\* C1 on servers whose local time is UTC or ahead of it
C1_CurrentStreakIsRecentRunEastOfUTC ==
  (ret.called /\ Recent(CalcDates) /\ tz >= 0)
    => ret.currentStreak = RunEndingAt(CalcDates, MaxOf(CalcDates))

\* C2: when the most recent completed date is neither today nor yesterday,
\* currentStreak is 0.  Stated for a server running at UTC.
C2_NotRecentGivesZero ==
  (ret.called /\ tz = 0 /\ CalcDates # {} /\ ~Recent(CalcDates))
    => ret.currentStreak = 0

\* C3: longestStreak is the length of the longest run of consecutive days in
\* the completion set, whatever the reference instant and the server's zone.
C3_LongestStreakIsLongestRun ==
  (ret.called /\ CalcDates # {})
    => ret.longestStreak = LongestRun(CalcDates)

C3_Witness ==
  /\ ret.called
  /\ ret.longestStreak = 3
  /\ ret.currentStreak = 2
  /\ Cardinality(CalcDates) = 5

ToggleDone(r) ==
  reqs[r].pc = "done" /\ reqs[r].kind = "toggle" /\ reqs[r].status = 200

\* the habit row holds what calculateStreaks returns on the store as it stands
StreaksFresh(h) ==
  /\ h.current_streak = calculateStreaks(h.id, h.user_id).currentStreak
  /\ h.longest_streak = calculateStreaks(h.id, h.user_id).longestStreak

\* C5: with requests one at a time, when a toggle answers with success the
\* habit's stored current_streak and longest_streak are the pair calculateStreaks
\* returns for the completed records as they stand after the toggle's write.
C5_StoredStreaksAreCalculated ==
  \A r \in Slots : ToggleDone(r) =>
    /\ HabitRows(reqs[r].habitId, reqs[r].userId) # {}
    /\ \A h \in HabitRows(reqs[r].habitId, reqs[r].userId) : StreaksFresh(h)

C5_Witness ==
  \E r \in Slots : \E h \in habits :
    /\ ToggleDone(r)
    /\ h.id = reqs[r].habitId
    /\ h.current_streak = 2
    /\ h.longest_streak = 2
    /\ Cardinality(CompletedRows(h.id, h.user_id)) = 2

\* C6: the progress table holds at most one record per (habit, calendar day),
\* in every reachable state, interleaved toggles included.
C6_OneRecordPerHabitDay ==
  \A p1 \in progress : \A p2 \in progress :
    (p1.habit_id = p2.habit_id /\ p1.date = p2.date) => p1 = p2

\* C7: once two interleaved toggles of one habit have both completed, the
\* habit's stored current_streak, longest_streak and total_completions are the
\* values computed from the final set of completed records.
C7_NoStaleOverwrite ==
  (\A r \in Slots : ToggleDone(r)) =>
    \A h \in habits :
      (\A r \in Slots : reqs[r].habitId = h.id /\ reqs[r].userId = h.user_id) =>
        /\ StreaksFresh(h)
        /\ h.total_completions = Cardinality(CompletedRows(h.id, h.user_id))

C9_ServedCurrentStreakZeroWhenStale ==
  (tz = 0 /\ AllIdle) =>
    \A h \in habits :
      LET S == CompletedDates(h.id, h.user_id)
      IN  (S # {} /\ ServerDay - MaxOf(S) > 1) => h.current_streak = 0

\* the write of a toggle in slot r: the step of its update or insert
ToggleWrote(r) ==
  reqs[r].pc \in {"update", "insert"} /\ reqs'[r].pc = "calc"

\* the records of the toggle's (habit, day) after the step
ProgressOnAfter(habitId, userId, dateString) ==
  {p \in progress' : p.user_id = userId /\ p.habit_id = habitId /\ p.date = dateString}

ToggleEffect(r) ==
  LET q == reqs[r]
      before == ProgressOn(q.habitId, q.userId, q.dateString)
      after == ProgressOnAfter(q.habitId, q.userId, q.dateString)
  IN  IF before = {}
      THEN /\ Cardinality(after) = 1
           /\ \A p \in after : p.completed
           /\ progress' = progress \cup after
      ELSE /\ Cardinality(before) = 1
           /\ progress' = (progress \ before) \cup
                          {[p EXCEPT !.completed = ~p.completed] : p \in before}

CompletedRecords(h) ==
  {p \in progress : p.habit_id = h.id /\ p.user_id = h.user_id /\ p.completed = TRUE}

\* C11: with the requests served one after another, whenever a toggle has
\* answered 200 the habit's stored total_completions is the number of that
\* habit's progress records with completed = true.
C11_TotalCompletionsIsCount ==
  \A r \in Slots :
    ToggleDone(r) =>
      \A h \in HabitRows(reqs[r].habitId, reqs[r].userId) :
        h.total_completions = Cardinality(CompletedRecords(h))

\* a toggle has answered with the habit holding both a completed record and a
\* record that is not completed, and the stored count is 1
C11_Witness ==
  \E r \in Slots :
    /\ ToggleDone(r)
    /\ \E h \in HabitRows(reqs[r].habitId, reqs[r].userId) :
         /\ h.total_completions = 1
         /\ \E p \in progress : p.habit_id = h.id /\ p.completed = FALSE
         /\ \E p \in progress : p.habit_id = h.id /\ p.completed = TRUE

\* what the habit row would hold had the handler read the habit's own records
\* and nothing else
AloneValues(h) ==
  LET own == CompletedRecords(h)
  IN  IF own = {}
      THEN [current_streak |-> 0, longest_streak |-> 0, total_completions |-> 0]
      ELSE [current_streak |-> CurrentLoop(OrderDesc(own), 1, 0),
            longest_streak |-> LongestLoop(OrderDesc(own), 2, 1, 1),
            total_completions |-> Cardinality(own)]

\* the rows of the two tables that belong to habits other than habitId
RowsOfOthers(table, habitId) == {p \in table : p.habit_id # habitId}
HabitsOfOthers(table, habitId) == {h \in table : h.id # habitId}

\* a step of the toggle in slot r leaves every row of another habit as it was
TogglesOwnHabitOnly(r) ==
  LET habitId == IF reqs[r].pc = "idle" THEN reqs'[r].habitId ELSE reqs[r].habitId
  IN  reqs'[r] # reqs[r] =>
        /\ RowsOfOthers(progress', habitId) = RowsOfOthers(progress, habitId)
        /\ HabitsOfOthers(habits', habitId) = HabitsOfOthers(habits, habitId)

\* whenever a toggle of a habit has answered 200, the habit's row holds what
\* its own records give, whatever a toggle of the other habit is doing
AnsweredAsAlone ==
  \A r \in Slots :
    ToggleDone(r) =>
      \A h \in HabitRows(reqs[r].habitId, reqs[r].userId) :
        /\ h.current_streak = AloneValues(h).current_streak
        /\ h.longest_streak = AloneValues(h).longest_streak
        /\ h.total_completions = AloneValues(h).total_completions

\* C12: toggles of different habits that interleave do not affect each other:
\* no step of a toggle on habit H changes a progress record or a habit row of
\* another habit, and when a toggle on H has answered, H's row holds the
\* values H's own records give (those it would hold had H's toggles run alone).
C12_DifferentHabitsIndependent ==
  /\ []AnsweredAsAlone
  /\ [][\A r \in Slots : TogglesOwnHabitOnly(r)]_vars

\* a toggle of one habit has answered while a toggle of the other habit, which
\* has inserted its record, is still between its write and its answer
C12_Witness ==
  \E r, o \in Slots :
    /\ r # o
    /\ ToggleDone(r)
    /\ reqs[o].pc \in {"calc", "count", "write"}
    /\ reqs[o].habitId # reqs[r].habitId
    /\ \A h \in habits : CompletedRecords(h) # {}

\* C13: called for a habit that has no completed progress record,
\* calculateStreaks returns current streak 0 and longest streak 0.
C13_NoCompletedRecordGivesZero ==
  (ret.called /\ ~ \E p \in progress : p.completed = TRUE) =>
    (ret.currentStreak = 0 /\ ret.longestStreak = 0)

\* the call has returned for a habit whose only record is not completed
C13_Witness ==
  /\ ret.called
  /\ progress # {}
  /\ \A p \in progress : p.completed = FALSE

\* the days of a set, most recent first
RECURSIVE DescendingDays(_)
DescendingDays(S) ==
  IF S = {} THEN <<>> ELSE <<MaxOf(S)>> \o DescendingDays(S \ {MaxOf(S)})

\* the pair as a function of the set of completed days and of today alone
StreaksOfDays(S) ==
  IF S = {}
  THEN [currentStreak |-> 0, longestStreak |-> 0]
  ELSE [currentStreak |-> CurrentLoop(DescendingDays(S), 1, 0),
        longestStreak |-> LongestLoop(DescendingDays(S), 2, 1, 1)]

\* C14: the pair calculateStreaks returns depends only on the set of completed
\* dates and on today: in whatever order the records were created and are
\* held, the pair is the one that set of days gives.
C14_OrderOfRecordsIrrelevant ==
  ret.called =>
    /\ ret.currentStreak = StreaksOfDays(CalcDates).currentStreak
    /\ ret.longestStreak = StreaksOfDays(CalcDates).longestStreak

\* the call has returned a longest streak of 3 for three days of which the
\* latest was recorded first and the earliest second
C14_Witness ==
  /\ ret.called
  /\ ret.longestStreak = 3
  /\ \E p, q, o \in progress :
       /\ p.date > q.date /\ q.date > o.date
       /\ p.id < o.id /\ o.id < q.id

\* a pair of integers under the names the function returns
IsStreakPair(v) ==
  /\ DOMAIN v = {"currentStreak", "longestStreak"}
  /\ v.currentStreak \in Int
  /\ v.longestStreak \in Int

\* C15: calculateStreaks never fails towards its caller: every call returns a
\* pair of integers, and the pair is (0, 0) when the read of the store answers
\* with an error or a step inside the function raises.
C15_NeverFailsTowardsCaller ==
  ret.called =>
    /\ IsStreakPair(ret.result)
    /\ ret.outcome # "data" =>
         (ret.result.currentStreak = 0 /\ ret.result.longestStreak = 0)

\* the read was rejected for a habit that has completed records
C15_Witness ==
  /\ ret.called
  /\ ret.outcome = "throws"
  /\ CalcDates # {}

\* a call of calculateStreaks leaves both tables as they were
CallChangesNoRecord ==
  (ret' # ret) => (progress' = progress /\ habits' = habits /\ shared' = shared)

LongestNotLowered ==
  \A h \in habits, g \in habits' :
    (g.id = h.id /\ g.user_id = h.user_id) => g.longest_streak >= h.longest_streak

\* the step is the habit-row update of a toggle that left its day completed
CompletingToggleWrites(r) ==
  /\ reqs[r].pc = "write"
  /\ reqs'[r].pc = "done"
  /\ \E p \in ProgressOn(reqs[r].habitId, reqs[r].userId, reqs[r].dateString) :
       p.completed = TRUE

\* C17 as stated: over any sequence of toggles the stored longest_streak never
\* falls below a value it held after an earlier toggle.
C17_LongestNeverFalls == [][LongestNotLowered]_vars

\* C17 (amended): with the requests served one after another, the stored
\* longest_streak never falls across a toggle that marks a day completed.
C17_LongestNeverFallsOnCompletion ==
  [][(\E r \in Slots : CompletingToggleWrites(r)) => LongestNotLowered]_vars

\* a toggle that completed a day has answered and the stored longest streak is 2
C17_Witness ==
  \E r \in Slots :
    /\ ToggleDone(r)
    /\ \E p \in ProgressOn(reqs[r].habitId, reqs[r].userId, reqs[r].dateString) :
         p.completed = TRUE
    /\ \E h \in HabitRows(reqs[r].habitId, reqs[r].userId) : h.longest_streak = 2

\* the rows of a table that belong to users other than userId
RowsOfOtherUsers(table, userId) == {x \in table : x.user_id # userId}

\* the request that takes a step in slot r, if any, is one of the four kinds
\* and authenticated as userId
ActsAs(r, userId) ==
  /\ reqs'[r] # reqs[r]
  /\ \/ reqs[r].pc # "idle" /\ reqs[r].userId = userId
        /\ reqs[r].kind \in {"toggle", "update", "delete", "unshare"}
     \/ reqs[r].pc = "idle" /\ reqs'[r].userId = userId
        /\ reqs'[r].kind \in {"toggle", "update", "delete", "unshare"}

\* a step of a request of userId leaves every row of every other user as it was
LeavesOthersRows(userId) ==
  /\ RowsOfOtherUsers(progress', userId) = RowsOfOtherUsers(progress, userId)
  /\ RowsOfOtherUsers(habits', userId) = RowsOfOtherUsers(habits, userId)
  /\ RowsOfOtherUsers(shared', userId) = RowsOfOtherUsers(shared, userId)

\* a toggle, habit update or habit delete arrives naming a habit its user does
\* not own
ArrivesForUnownedHabit(r) ==
  /\ reqs[r].pc = "idle"
  /\ reqs'[r].pc # "idle"
  /\ reqs'[r].kind \in {"toggle", "update", "delete"}
  /\ HabitRows(reqs'[r].habitId, reqs'[r].userId) = {}

\* C18: no step of a toggle, habit update, habit delete or share-link delete
\* authenticated as user A creates, changes or removes a progress, habits or
\* shared_progress row of another user; and a toggle, habit update or habit
\* delete naming a habit A does not own answers 404 with the store unchanged.
C18_OnlyOwnRowsTouched ==
  [][\A r \in Slots :
       /\ \A u \in OwnUsers : ActsAs(r, u) => LeavesOthersRows(u)
       /\ ArrivesForUnownedHabit(r) =>
            /\ reqs'[r].pc = "done"
            /\ reqs'[r].status = 404
            /\ progress' = progress /\ habits' = habits /\ shared' = shared]_vars

\* a share-link delete naming another user's link has answered and the link is
\* still there, while the other user also owns a habit with a progress record
C18_Witness ==
  \E r \in Slots :
    /\ reqs[r].pc = "done"
    /\ reqs[r].kind = "unshare"
    /\ \E s \in shared : s.share_id = reqs[r].share_id /\ s.user_id # reqs[r].userId
    /\ \E p \in progress : p.user_id # reqs[r].userId

\* the deletion in slot r has answered "Habit deleted successfully"
DeleteDone(r) ==
  reqs[r].pc = "done" /\ reqs[r].kind = "delete" /\ reqs[r].status = 200

\* C19: once DELETE /api/habits/:id has answered with success, no progress
\* record with that habit_id exists in the store, also when a toggle for the
\* same habit interleaves with the deletion.
C19_NoProgressAfterHabitDelete ==
  \A r \in Slots :
    DeleteDone(r) => ~ \E p \in progress : p.habit_id = reqs[r].habitId

\* C20: toggling the same (habit, day) twice in a row, with no other request
\* in between and on the same day, brings the habit's set of completed days
\* and its stored current_streak, longest_streak and total_completions back to
\* what they were before the first toggle, provided the stored values were
\* those of the habit's creation or of an earlier toggle on that day (they
\* were what the calculation gives on that day).
C20_TwoTogglesRestore ==
  (noted.phase = 2 /\ ToggleDone(1) /\ noted.fresh) =>
    /\ CompletedDates(noted.habitId, noted.userId) = noted.days
    /\ HabitRows(noted.habitId, noted.userId) = noted.rows

\* the second toggle has answered after un-marking the day that the first one
\* had created, for a habit that had another completed day and a stored
\* longest streak before
C20_Witness ==
  /\ noted.phase = 2
  /\ ToggleDone(1)
  /\ noted.fresh
  /\ reqs[1].wrote = "update"
  /\ noted.days # {}
  /\ reqs[1].dateString \notin noted.days
  /\ \E h \in noted.rows : h.longest_streak >= 1

\* a stored link claims no snapshot it does not carry
SnapshotsAsFlagged(s) ==
  /\ s.include_stats => s.stats # <<>>
  /\ s.include_habits => s.habits # <<>>

\* the public view has answered for the link in slot r
ViewDone(r) ==
  reqs[r].pc = "done" /\ reqs[r].kind = "view" /\ reqs[r].status = 200

\* C21: every shared_progress record stored with include_stats = true carries
\* a stats snapshot and every record stored with include_habits = true carries
\* a habits snapshot, whatever the body of POST /api/share/create held; so the
\* public GET /api/share/:shareId returns stats exactly when the record's
\* include_stats is set (the creator did not pass includeStats = false).
C21_FlaggedSnapshotsStored ==
  /\ \A s \in shared : SnapshotsAsFlagged(s)
  /\ \A r \in Slots :
       ViewDone(r) =>
         \A s \in shared :
           s.share_id = reqs[r].share_id =>
             ((reqs[r].stats # <<>>) <=> s.include_stats)

\* the account deletion in slot r has answered 'Account deleted successfully'
AccountDeleted(r) ==
  reqs[r].pc = "done" /\ reqs[r].kind = "account" /\ reqs[r].status = 200

\* C22: after DELETE /api/users/account has answered with success, no row owned
\* by that user remains in progress, habits, profiles or shared_progress (so
\* the public GET /api/share/:shareId finds no link of the user).
C22_AccountDeleteLeavesNoRow ==
  \A r \in Slots :
    AccountDeleted(r) =>
      /\ \A p \in progress : p.user_id # reqs[r].userId
      /\ \A h \in habits : h.user_id # reqs[r].userId
      /\ \A x \in profiles : x.id # reqs[r].userId
      /\ \A s \in shared : s.user_id # reqs[r].userId

\* the statistics request in slot r has answered
StatsDone(r) ==
  reqs[r].pc = "done" /\ reqs[r].kind = "stats" /\ reqs[r].status = 200

\* C23: for every stored progress state and every positive days parameter,
\* with or without a habitId filter, GET /api/progress/stats answers with
\* 0 <= completedDays <= totalDays and missedDays = totalDays - completedDays >= 0.
C23_StatsWithinBounds ==
  \A r \in Slots :
    StatsDone(r) =>
      /\ 0 <= reqs[r].completedDays
      /\ reqs[r].completedDays <= reqs[r].totalDays
      /\ reqs[r].missedDays = reqs[r].totalDays - reqs[r].completedDays
      /\ reqs[r].missedDays >= 0

====
